---- MODULE Spec2Model ----
(***************************************************************************)
(* A model of custom_components/localtuya/common.py: TuyaDevice (the       *)
(* connection manager of one device), its connect tasks, disconnect and    *)
(* close handling, timers, the write path, and LocalTuyaEntity's state     *)
(* cache and restore hook.                                                 *)
(*                                                                         *)
(* The program runs on one asyncio event loop.  Every action below is one  *)
(* uninterrupted run of code between two suspension points (an await that  *)
(* really suspends): a call from outside up to its first suspension, or    *)
(* the resumption of a suspended coroutine up to its next suspension.      *)
(* Handlers are written as operators from a state record to a state        *)
(* record, so that the calls one handler makes compose as in the source.   *)
(***************************************************************************)
EXTENDS Integers, Sequences, FiniteSets, TLC

Dev == {"gw", "sub"}
None == 0

(* Program constants. *)
ConnectMaxTries == 3
InitAge == 5
ReconnectDelay == 1
ShutdownGrace == 3

(* Bounds of the model: per specification, the connect runs of a device,  *)
(* the Transports opened, the seconds that pass, the set_dp() calls.       *)
MaxTasks == 2
MaxOpens == 2
MaxTime == 3
KeyTasks == 2
KeyOpens == 1
GaTasks == 2
GaOpens == 1
OrTasks == 2
LvTasks == 3
LvOpens == 3
LvTime == 4
OrOpens == 1
InTasks == 3
InOpens == 3
InWrites == 1
SuTasks == 2
SuOpens == 1
StTasks == 1
StOpens == 1
StWrites == 1
EvTasks == 1
EvOpens == 1
RaceTasks == 3
RaceOpens == 2
RaceTime == 1
RaceWrites == 1
GwTasks == 2
GwOpens == 1
GwTime == 1
WrTasks == 1
WrOpens == 1
WrWrites == 3
EnTasks == 2
EnOpens == 2

(* Python values: None, and the strings the code compares with. *)
NoneV == "None"
STATE_UNKNOWN == "unknown"
STATE_UNAVAILABLE == "unavailable"
DpId == "1"
RESTORE_STATES == [k \in {"0"} |-> "restore"]
EmptyDict == [k \in {} |-> NoneV]

(* dict.update: the keys of b overwrite those of a. *)
Upd(a, b) == [k \in (DOMAIN a) \cup (DOMAIN b) |-> IF k \in DOMAIN b THEN b[k] ELSE a[k]]
One(k, v) == [x \in {k} |-> v]

VARIABLES
    cfg,                      \* DeviceConfig of each device, and the bounds of the run
    now,                      \* the clock, in seconds
    interface,                \* TuyaDevice._interface: a Transport id, or None
    connect_task,             \* TuyaDevice._connect_task: a task id, or None
    tasks,                    \* the _make_connection tasks ever created, per device
    is_closing,               \* TuyaDevice._is_closing
    closer,                   \* the close() call in progress: the task it awaits
    status,                   \* TuyaDevice._status (the StatusCache)
    last_update_time,         \* TuyaDevice._last_update_time
    pending_status,           \* TuyaDevice._pending_status (PendingWrites)
    sub_devices,              \* TuyaDevice._sub_devices (as a set of devices)
    gwateway,                 \* TuyaDevice._gwateway
    shutdown_entities_delay,  \* TuyaDevice._shutdown_entities_delay: a timer handle
    subscriptions,            \* active subscriptions to localtuya_entity_<id>
    disconnect_task,          \* TuyaDevice._disconnect_task is set
    timers,                   \* async_call_later timers not yet fired
    alive,                    \* Transports that are open
    opener,                   \* per Transport: the device whose pytuya.connect made it
    writers,                  \* the set_dp() calls in progress
    attached,                 \* the entity ran async_added_to_hass
    e_status,                 \* LocalTuyaEntity._status
    e_state,                  \* LocalTuyaEntity._state
    e_last_state,             \* LocalTuyaEntity._last_state
    sent,                     \* history: the set_dps payloads handed to a Transport
    lastDisc,                 \* history: the time of the last unexpected disconnected()
    closed,                   \* history: close() has returned normally
    extConn,                  \* history: connect() was called since the last disconnected()
    unsub_interval,           \* _unsub_interval is set: the periodic refresh is armed
    dispatched_dps,           \* per Transport: the DPs of the message it dispatched last
    cache,                    \* history: _status as status_updated alone has written it
    events,                   \* the events the last step fired on the bus, in order
    out                       \* what the last step delivered to the outside

vars == <<cfg, now, interface, connect_task, tasks, is_closing, closer, status,
          last_update_time, pending_status, sub_devices, gwateway,
          shutdown_entities_delay, subscriptions, disconnect_task, timers, alive,
          opener, writers, attached, e_status, e_state, e_last_state, sent,
          lastDisc, closed, extConn, unsub_interval, dispatched_dps, cache, events, out>>

(* The state as one record; cx lists the tasks cancel() was called on in   *)
(* this step, whose CancelledError is delivered when the caller is through. *)
Cur ==
    [cfg |-> cfg, now |-> now, interface |-> interface, connect_task |-> connect_task,
     tasks |-> tasks, is_closing |-> is_closing, closer |-> closer, status |-> status,
     last_update_time |-> last_update_time, pending_status |-> pending_status,
     sub_devices |-> sub_devices, gwateway |-> gwateway,
     shutdown_entities_delay |-> shutdown_entities_delay,
     subscriptions |-> subscriptions, disconnect_task |-> disconnect_task,
     timers |-> timers, alive |-> alive, opener |-> opener, writers |-> writers,
     attached |-> attached, e_status |-> e_status, e_state |-> e_state,
     e_last_state |-> e_last_state, sent |-> sent, lastDisc |-> lastDisc,
     closed |-> closed, extConn |-> extConn, unsub_interval |-> unsub_interval,
     dispatched_dps |-> dispatched_dps,
     cache |-> cache, events |-> <<>>, out |-> {}, cx |-> <<>>]

Commit(r) ==
    \E s \in {r} :
        /\ cfg' = s.cfg
        /\ now' = s.now
        /\ interface' = s.interface
        /\ connect_task' = s.connect_task
        /\ tasks' = s.tasks
        /\ is_closing' = s.is_closing
        /\ closer' = s.closer
        /\ status' = s.status
        /\ last_update_time' = s.last_update_time
        /\ pending_status' = s.pending_status
        /\ sub_devices' = s.sub_devices
        /\ gwateway' = s.gwateway
        /\ shutdown_entities_delay' = s.shutdown_entities_delay
        /\ subscriptions' = s.subscriptions
        /\ disconnect_task' = s.disconnect_task
        /\ timers' = s.timers
        /\ alive' = s.alive
        /\ opener' = s.opener
        /\ writers' = s.writers
        /\ attached' = s.attached
        /\ e_status' = s.e_status
        /\ e_state' = s.e_state
        /\ e_last_state' = s.e_last_state
        /\ sent' = s.sent
        /\ lastDisc' = s.lastDisc
        /\ closed' = s.closed
        /\ extConn' = s.extConn
        /\ unsub_interval' = s.unsub_interval
        /\ dispatched_dps' = s.dispatched_dps
        /\ cache' = s.cache
        /\ events' = s.events
        /\ out' = s.out

Emit(s, e) == [s EXCEPT !.out = @ \cup {e}]

-----------------------------------------------------------------------------
(* TuyaDevice: properties *)

(* is_connecting that never sees a connect task *)
is_connecting_never(s, d) == FALSE

is_connecting(s, d) == s.connect_task[d] # None

connected(s, d) == s.interface[d] # None

(* is_subdevice that takes every device for a plain one *)
is_subdevice_never(s, d) == FALSE

is_subdevice(s, d) == s.cfg.node_id[d] /\ ~s.cfg.fake_gateway[d]

is_sleep(s, d) ==
    LET device_sleep == s.cfg.sleep_time[d]
        last_update == s.now - s.last_update_time[d]
    IN  device_sleep > 0 /\ last_update < device_sleep

-----------------------------------------------------------------------------
(* LocalTuyaEntity: one entity per device, on DP "1" *)

HasEntity(s, d) == s.cfg.entity[d].present

dp_value(st) == IF DpId \in DOMAIN st THEN st[DpId] ELSE NoneV

(* LocalTuyaEntity.status_updated *)
entity_status_updated(s, d) ==
    LET state == dp_value(s.e_status[d])
        s1 == [s EXCEPT !.e_state[d] = state]
    IN  IF state # NoneV /\ ~is_connecting(s, d)
        THEN [s1 EXCEPT !.e_last_state[d] = state]
        ELSE s1

(* LocalTuyaEntity.status_restored *)
status_restored(s, d) ==
    LET raw_state == s.cfg.entity[d].stored.attr
    IN  IF raw_state # NoneV THEN [s EXCEPT !.e_last_state[d] = raw_state] ELSE s

(* _update_handler: st is the dict the dispatcher passes, None for a       *)
(* shutdown.  shared says that st is the device's own _status object,      *)
(* which the handler then writes through.                                  *)
_update_handler(s, d, st, isNone, shared) ==
    LET stored == s.cfg.entity[d].stored
        st0 == IF isNone THEN EmptyDict ELSE st
        restores == /\ st0 = RESTORE_STATES
                    /\ stored.present
                    /\ stored.state \notin {STATE_UNAVAILABLE, STATE_UNKNOWN}
        st1 == IF restores THEN Upd(st0, One(DpId, stored.state)) ELSE st0
        s1 == IF restores /\ shared /\ ~isNone THEN [s EXCEPT !.status[d] = st1] ELSE s
    IN  IF s1.e_status[d] # st1
        THEN LET s2 == [s1 EXCEPT !.e_status[d] = st1]
             IN  IF st1 # EmptyDict THEN entity_status_updated(s2, d) ELSE s2
        ELSE s1

(* async_dispatcher_send(hass, "localtuya_<id>", ...) to the entity *)
Deliver(s, d, st, isNone, shared) ==
    IF HasEntity(s, d) /\ s.attached[d]
    THEN _update_handler([s EXCEPT !.events = Append(@,
                             [ev |-> "delivered", dev |-> d, old |-> EmptyDict,
                              new |-> IF isNone THEN EmptyDict ELSE st,
                              disp |-> EmptyDict, dp |-> "",
                              value |-> IF isNone THEN "None" ELSE ""])],
                         d, st, isNone, shared)
    ELSE s

-----------------------------------------------------------------------------
(* TuyaDevice: status *)

(* An async_call_later timer: what it calls, on which device, and when. *)
NoTimer == [kind |-> "none", dev |-> "none", at |-> 0]
Timer(kind, d, at) == [kind |-> kind, dev |-> d, at |-> at]

_dispatch_status(s, d) == Deliver(s, d, s.status[d], FALSE, TRUE)

(* An event on the bus; "update" is no event but the record of the call  *)
(* of status_updated that the events after it belong to.                  *)
Event(ev, d, old, new, disp, dp, value) ==
    [ev |-> ev, dev |-> d, old |-> old, new |-> new, disp |-> disp,
     dp |-> dp, value |-> value]

(* interface.dispatched_dps, EmptyDict when there is no Transport *)
Dispatched(s, d) ==
    IF s.interface[d] # None THEN s.dispatched_dps[s.interface[d]] ELSE EmptyDict

(* line 514 as "if new_status:" *)
device_triggered_nonempty_new(old_status, new_status) ==
    new_status # EmptyDict

(* line 514; new_status is a dict, never None *)
device_triggered(old_status, new_status) ==
    old_status # EmptyDict

(* line 520 as "if len(self._interface.dispatched_dps) >= 1:" *)
device_dp_triggered_any_number(s, d, old_status, new_status) ==
    /\ device_triggered(old_status, new_status)
    /\ s.interface[d] # None
    /\ Cardinality(DOMAIN Dispatched(s, d)) >= 1

(* lines 514, 519-520 *)
device_dp_triggered(s, d, old_status, new_status) ==
    /\ device_triggered(old_status, new_status)
    /\ s.interface[d] # None
    /\ Cardinality(DOMAIN Dispatched(s, d)) = 1

(* lines 493-525; fire_event always fires, its data is never empty *)
_handle_event(s, d, old_status, new_status) ==
    LET disp == Dispatched(s, d)
        upd == <<Event("update", d, old_status, new_status, disp, "", "")>>
        e1 == IF old_status # EmptyDict /\ old_status # new_status
              THEN <<Event("states_update", d, old_status, new_status, disp, "", "")>>
              ELSE <<>>
        e2 == IF device_triggered(old_status, new_status)
              THEN <<Event("device_triggered", d, old_status, new_status, disp, "", "")>>
              ELSE <<>>
        e3 == IF device_dp_triggered(s, d, old_status, new_status)
              THEN LET dpid_trigger == CHOOSE k \in DOMAIN disp : TRUE
                   IN  <<Event("device_dp_triggered", d, old_status, new_status, disp,
                               dpid_trigger, disp[dpid_trigger])>>
              ELSE <<>>
    IN  [s EXCEPT !.events = @ \o upd \o e1 \o e2 \o e3]

status_updated(s, d, st) ==
    IF s.cfg.fake_gateway[d]
    THEN s
    ELSE LET s1 == [s EXCEPT !.last_update_time[d] = s.now]
             s2 == _handle_event(s1, d, s1.status[d], st)
             s3 == [s2 EXCEPT !.status[d] = Upd(@, st), !.cache[d] = Upd(@, st)]
         IN  _dispatch_status(s3, d)

(* _shutdown_entities without the test of line 532 *)
_shutdown_entities_unconditional(s, d) ==
    LET s1 == [s EXCEPT !.shutdown_entities_delay[d] = NoTimer]
    IN  IF is_sleep(s1, d)
        THEN s1
        ELSE Emit(Deliver(s1, d, EmptyDict, TRUE, FALSE), <<"unavailable", d>>)

_shutdown_entities(s, d) ==
    LET s1 == [s EXCEPT !.shutdown_entities_delay[d] = NoTimer]
    IN  IF is_sleep(s1, d)
        THEN s1
        ELSE IF ~connected(s1, d)
             THEN Emit(Deliver(s1, d, EmptyDict, TRUE, FALSE), <<"unavailable", d>>)
             ELSE Emit(s1, <<"shutdown_skipped", d>>)

(* Transport.close() *)
CloseTransport(s, t) == [s EXCEPT !.alive = @ \ {t}]

abort_connect(s, d) ==
    LET s1 == IF is_subdevice(s, d)
              THEN [s EXCEPT !.interface[d] = None, !.connect_task[d] = None]
              ELSE s
        s2 == IF s1.interface[d] # None
              THEN [CloseTransport(s1, s1.interface[d]) EXCEPT !.interface[d] = None]
              ELSE s1
    IN  IF ~is_sleep(s2, d) THEN _shutdown_entities(s2, d) ELSE s2

-----------------------------------------------------------------------------
(* Tasks.  A task record is the position of one _make_connection run: pc   *)
(* names the await it is suspended at, retry is the loop counter, aw the   *)
(* tasks it awaits.  A finished task keeps only how it ended.              *)

NoTask == [pc |-> "none", retry |-> 0, aw |-> {}]
Finished == {"done", "cancelled", "failed"}

SetPc(s, d, id, pc, retry, aw) ==
    [s EXCEPT !.tasks[d][id] = [pc |-> pc, retry |-> retry, aw |-> aw]]

Finish(s, d, id, how) == SetPc(s, d, id, how, 0, {})

TaskDone(s, p) == s.tasks[p[1]][p[2]].pc \in Finished

FreeTask(s, d) ==
    LET free == {i \in 1..s.cfg.maxTasks : s.tasks[d][i].pc = "none"}
    IN  IF free = {} THEN None ELSE CHOOSE i \in free : \A j \in free : i <= j

(* lines 249-260.  The caller's await of the task changes nothing here.    *)
CanConnect(s, d) == ~s.is_closing[d] /\ ~is_connecting(s, d) /\ ~connected(s, d)

async_connect(s, d) ==
    IF CanConnect(s, d) /\ FreeTask(s, d) # None
    THEN LET id == FreeTask(s, d)
         IN  SetPc([s EXCEPT !.connect_task[d] = id], d, id, "start", 0, {})
    ELSE s

(* The task a caller of async_connect(d) then awaits: none when no task    *)
(* was created or the device is_sleep.                                     *)
Awaited(s0, s1, d) ==
    IF s1.connect_task[d] # s0.connect_task[d] /\ ~is_sleep(s1, d)
    THEN {<<d, s1.connect_task[d]>>}
    ELSE {}

(* lines 232-247 *)
GatewayOf(s, d) ==
    IF s.cfg.node_id[d] /\ "gw" \in s.cfg.devs /\ d # "gw" THEN "gw" ELSE "none"

get_gateway(s, d) ==
    LET g == GatewayOf(s, d)
    IN  IF g = "none" THEN s
        ELSE [s EXCEPT !.gwateway[d] = g, !.sub_devices[g] = @ \cup {d}]

(* line 374 *)
End(s, d, id) == Finish([s EXCEPT !.connect_task[d] = None], d, id, "done")

(* lines 458-459 without the reset of _pending_status *)
Flush_keeps_pending(s, d) ==
    IF s.interface[d] # None /\ s.pending_status[d] # EmptyDict
    THEN [s |-> [s EXCEPT !.sent[d] = Append(@, [t |-> s.interface[d],
                                                 p |-> s.pending_status[d]])],
          pc |-> "send", aw |-> {}]
    ELSE [s |-> s, pc |-> "ret", aw |-> {}]

-----------------------------------------------------------------------------
(* set_values and check_connection, lines 389-396 and 455-463, as run by a *)
(* set_dp() caller or by a task (self is then the task's id).  The result  *)
(* is the state, where the coroutine is now suspended ("wait1", "wait2",   *)
(* "send"), or that it returned ("ret") or raised ("raise", "cancel").     *)

Res(s, pc, aw) == [s |-> s, pc |-> pc, aw |-> aw]

Flush(s, d) ==
    IF s.interface[d] # None /\ s.pending_status[d] # EmptyDict
    THEN Res([s EXCEPT !.sent[d] = Append(@, [t |-> s.interface[d], p |-> s.pending_status[d]]),
                       !.pending_status[d] = EmptyDict],
             "send", {})
    ELSE Res(s, "ret", {})

AwaitTask(s, p, self, suspended, next) ==
    LET pc == s.tasks[p[1]][p[2]].pc
    IN  IF p = self THEN Res(s, "raise", {})
        ELSE IF pc = "done" THEN next
        ELSE IF pc = "cancelled" THEN Res(s, "cancel", {})
        ELSE IF pc = "failed" THEN Res(s, "raise", {})
        ELSE Res(s, suspended, {p})

Check2(s, d, self) ==
    LET g == s.gwateway[d]
    IN  IF ~connected(s, d) /\ g # "none" /\ s.connect_task[g] # None
        THEN AwaitTask(s, <<g, s.connect_task[g]>>, self, "wait2", Flush(s, d))
        ELSE Flush(s, d)

set_values(s, d, self) ==
    IF ~connected(s, d) /\ s.connect_task[d] # None
    THEN AwaitTask(s, <<d, s.connect_task[d]>>, self, "wait1", Check2(s, d, self))
    ELSE Check2(s, d, self)

(* The resumption of a suspended set_values. *)
set_values_resume(s, d, self, pc, aw) ==
    LET p == CHOOSE x \in aw : TRUE
    IN  CASE pc = "wait1" -> AwaitTask(s, p, self, "wait1", Check2(s, d, self))
          [] pc = "wait2" -> AwaitTask(s, p, self, "wait2", Flush(s, d))
          [] OTHER -> Res(s, "ret", {})

-----------------------------------------------------------------------------
(* LocalTuyaEntity.restore_state_when_connected, lines 791-832: the value  *)
(* it writes with set_dp, or NoneV when it returns without writing.        *)

entity_default_value(e) == IF e.default_value = NoneV THEN "0" ELSE e.default_value

(* the hook with its first two tiers exchanged: _last_state before _state *)
RestoreValue_last_first(e, e_st, state, last_state) ==
    LET restore_state == IF last_state # NoneV THEN last_state
                         ELSE IF state = STATE_UNKNOWN THEN NoneV ELSE state
    IN  IF ~e.restore_on_reconnect /\ (DpId \in DOMAIN e_st \/ ~e.passive_entity)
        THEN NoneV
        ELSE IF restore_state = NoneV
             THEN IF e.passive_entity THEN entity_default_value(e) ELSE NoneV
             ELSE restore_state

(* the hook without the test of lines 801-807 *)
RestoreValue_unguarded(e, e_st, state, last_state) ==
    LET restore_state == IF state = STATE_UNKNOWN \/ state = NoneV THEN last_state ELSE state
    IN  IF restore_state = NoneV
        THEN IF e.passive_entity THEN entity_default_value(e) ELSE NoneV
        ELSE restore_state

RestoreValue(e, e_st, state, last_state) ==
    LET restore_state == IF state = STATE_UNKNOWN \/ state = NoneV THEN last_state ELSE state
    IN  IF ~e.restore_on_reconnect /\ (DpId \in DOMAIN e_st \/ ~e.passive_entity)
        THEN NoneV
        ELSE IF restore_state = NoneV
             THEN IF e.passive_entity THEN entity_default_value(e) ELSE NoneV
             ELSE restore_state

restore_value(s, d) ==
    RestoreValue(s.cfg.entity[d], s.e_status[d], s.e_state[d], s.e_last_state[d])

-----------------------------------------------------------------------------
(* set_dp, lines 465-473: up to its asyncio.sleep(0.001) ("sleep"), or to  *)
(* its return when the device is not connected.                            *)

(* line 472 missing: a disconnected device queues the value whatever it is *)
set_dp_queues_always(s, d, v) ==
    IF s.interface[d] # None
    THEN [s |-> [s EXCEPT !.pending_status[d] = Upd(@, One(DpId, v))],
          pc |-> "sleep", aw |-> {}]
    ELSE [s |-> [s EXCEPT !.pending_status[d] = Upd(@, One(DpId, v))],
          pc |-> "ret", aw |-> {}]

set_dp(s, d, v) ==
    IF s.interface[d] # None
    THEN Res([s EXCEPT !.pending_status[d] = Upd(@, One(DpId, v))], "sleep", {})
    ELSE IF is_sleep(s, d)
         THEN Res([s EXCEPT !.pending_status[d] = Upd(@, One(DpId, v))], "ret", {})
         ELSE Res(s, "ret", {})

-----------------------------------------------------------------------------
(* _make_connection, lines 262-374, from the last line to the first.       *)

(* lines 367-374; manual_dps is not configured *)
Tail2(s, d, id) ==
    IF s.pending_status[d] # EmptyDict
    THEN IF s.interface[d] # None
         THEN LET r == set_values(Emit(s, <<"flush", d>>), d, <<d, id>>)
              IN  CASE r.pc = "send" -> SetPc(r.s, d, id, "flush", 0, {})
                    [] r.pc = "ret" -> End([r.s EXCEPT !.pending_status[d] = EmptyDict], d, id)
                    [] OTHER -> Finish(r.s, d, id, "failed")
         ELSE End([s EXCEPT !.pending_status[d] = EmptyDict], d, id)
    ELSE End(s, d, id)

(* lines 361-365: asyncio.gather of the subdevices' async_connect *)
RECURSIVE ConnectSubs(_, _, _)
ConnectSubs(s, subs, aw) ==
    IF subs = {} THEN Res(s, "gather", aw)
    ELSE LET x == CHOOSE y \in subs : TRUE
             s1 == async_connect(s, x)
         IN  ConnectSubs(s1, subs \ {x}, aw \cup Awaited(s, s1, x))

(* lines 345-365 *)
AfterRestore(s, d, id) ==
    LET s0 == IF s.cfg.scan_interval[d] > 0
              THEN Emit([s EXCEPT !.unsub_interval[d] = TRUE], <<"interval", d>>)
              ELSE s
        s1 == [s0 EXCEPT !.subscriptions[d] = @ + 1,
                         !.disconnect_task[d] = "active",
                         !.connect_task[d] = None]
    IN  IF s1.sub_devices[d] # {}
        THEN LET r == ConnectSubs(s1, s1.sub_devices[d], {})
             IN  SetPc(r.s, d, id, "gather", 0, r.aw)
        ELSE Tail2(s1, d, id)

(* where a task is after a step of the set_dp its restore hook made *)
AfterHookStep(r, d, id) ==
    CASE r.pc = "ret" -> AfterRestore(r.s, d, id)
      [] r.pc = "raise" -> Finish(r.s, d, id, "failed")
      [] r.pc = "cancel" -> Finish(r.s, d, id, "cancelled")
      [] r.pc = "sleep" -> SetPc(r.s, d, id, "r_sleep", 0, {})
      [] r.pc = "wait1" -> SetPc(r.s, d, id, "r_wait1", 0, r.aw)
      [] r.pc = "wait2" -> SetPc(r.s, d, id, "r_wait2", 0, r.aw)
      [] r.pc = "send" -> SetPc(r.s, d, id, "r_send", 0, {})

(* lines 339-343 *)
Tail1(s0, d, id) ==
    IF s0.interface[d] # None
    THEN LET s == IF HasEntity(s0, d) THEN Emit(s0, <<"restore_hook", d>>) ELSE s0
         IN  IF HasEntity(s, d) /\ restore_value(s, d) # NoneV
             THEN AfterHookStep(set_dp(Emit(s, <<"restore_write", d, restore_value(s, d)>>),
                                       d, restore_value(s, d)), d, id)
             ELSE AfterRestore(s, d, id)
    ELSE End(s0, d, id)

(* lines 300-310 *)
Post(s, d, id) ==
    IF s.interface[d] # None
    THEN SetPc(s, d, id, IF s.cfg.reset_dps[d] THEN "reset" ELSE "status", 0, {})
    ELSE Tail1(s, d, id)

(* line 270 as "while True:" for a device that dials *)
Loop_unlimited(s, d, id, retry) ==
    IF is_subdevice(s, d) THEN Post(s, d, id)
    ELSE SetPc(s, d, id, "dial", retry + 1, {})

(* lines 271-298: the loop from its test, up to the next suspension *)
RECURSIVE Loop(_, _, _, _)
Loop(s, d, id, retry) ==
    IF retry >= ConnectMaxTries THEN Post(s, d, id)
    ELSE IF is_subdevice(s, d)
    THEN LET s1 == get_gateway(s, d)
             g == GatewayOf(s, d)
         IN  IF g = "none" \/ (~connected(s1, g) /\ is_connecting(s1, g))
             THEN Finish(abort_connect(Emit(s1, <<"no_gateway", d>>), d), d, id, "done")
             ELSE IF s1.interface[g] = None
                  THEN Loop(abort_connect(Emit(s1, <<"retry", d>>), d), d, id, retry + 1)
                  ELSE Post([s1 EXCEPT !.interface[d] = s1.interface[g]], d, id)
    ELSE SetPc(s, d, id, "dial", retry + 1, {})

(* lines 262-270 *)
Start(s, d, id) ==
    LET s1 == IF is_sleep(s, d) /\ s.status[d] = EmptyDict
              THEN status_updated(s, d, RESTORE_STATES)
              ELSE s
    IN  Loop(s1, d, id, 0)

(* line 332 missing: the failure is logged and the run goes on *)
ExceptPost_no_abort(s, d, id, ex) ==
    CASE ex = "decode" -> SetPc(abort_connect(s, d), d, id, "key2", 0, {})
      [] ex = "notfound" /\ s.cfg.fake_gateway[d] -> Tail1(s, d, id)
      [] ex = "cancel" ->
            IF s.cfg.fake_gateway[d]
            THEN SetPc(abort_connect(s, d), d, id, "key2", 0, {})
            ELSE Tail1(s, d, id)
      [] OTHER -> Tail1(s, d, id)

(* the except clauses of lines 321-337, by what was raised *)
ExceptPost(s, d, id, ex) ==
    CASE ex = "decode" -> SetPc(abort_connect(s, d), d, id, "key2", 0, {})
      [] ex = "notfound" /\ s.cfg.fake_gateway[d] -> Tail1(s, d, id)
      [] ex = "cancel" ->
            IF s.cfg.fake_gateway[d]
            THEN SetPc(abort_connect(s, d), d, id, "key2", 0, {})
            ELSE Tail1(s, d, id)
      [] OTHER -> Tail1(abort_connect(s, d), d, id)

-----------------------------------------------------------------------------
(* The resumption of a suspended task with outcome o of the awaited call.  *)

StatusVals == {"v1", "v2", "nodp", "two", "empty"}
StatusOf(o) ==
    CASE o = "nodp" -> One("2", "x")
      [] o = "two" -> Upd(One(DpId, "v2"), One("2", "x"))
      [] o = "empty" -> EmptyDict
      [] OTHER -> One(DpId, o)

NextTid(s) ==
    LET free == {t \in 1..s.cfg.maxOpens : s.opener[t] = "none"}
    IN  IF free = {} THEN None ELSE CHOOSE t \in free : \A u \in free : t <= u

Step(s, d, id, o) ==
    LET tk == s.tasks[d][id]
        self == <<d, id>>
    IN  CASE tk.pc = "start" -> Start(s, d, id)
          [] tk.pc = "dial" ->
                IF o = "ok"
                THEN LET t == NextTid(s)
                     IN  Post([s EXCEPT !.alive = @ \cup {t}, !.opener[t] = d,
                                        !.interface[d] = t], d, id)
                ELSE IF o = "key"
                     THEN SetPc(abort_connect(s, d), d, id, "key", tk.retry, {})
                     ELSE Loop(abort_connect(s, d), d, id, tk.retry)
          [] tk.pc = "key" ->
                IF o = "raise" THEN Finish(s, d, id, "failed")
                ELSE Loop(s, d, id, tk.retry)
          [] tk.pc = "key2" ->
                IF o = "raise" THEN Finish(s, d, id, "failed") ELSE Tail1(s, d, id)
          [] tk.pc = "reset" ->
                IF o = "ok" /\ s.interface[d] # None
                THEN SetPc(s, d, id, "status", 0, {})
                ELSE ExceptPost(s, d, id, "error")
          [] tk.pc = "status" ->
                IF o \in StatusVals
                THEN IF s.interface[d] = None
                     THEN ExceptPost(s, d, id, "error")
                     ELSE Tail1(status_updated(Emit(s, <<"heartbeat", d>>), d,
                                               StatusOf(o)), d, id)
                ELSE IF o = "none"
                     THEN ExceptPost(Emit(s, <<"status_none", d>>), d, id, o)
                     ELSE ExceptPost(s, d, id, o)
          [] tk.pc = "r_sleep" -> AfterHookStep(set_values(s, d, self), d, id)
          [] tk.pc = "r_wait1" ->
                AfterHookStep(set_values_resume(s, d, self, "wait1", tk.aw), d, id)
          [] tk.pc = "r_wait2" ->
                AfterHookStep(set_values_resume(s, d, self, "wait2", tk.aw), d, id)
          [] tk.pc = "r_send" ->
                AfterRestore(IF o = "fail" THEN Emit(s, <<"set_dps_failed", d>>) ELSE s,
                             d, id)
          [] tk.pc = "gather" ->
                IF \E p \in tk.aw : s.tasks[p[1]][p[2]].pc = "failed"
                THEN Finish(s, d, id, "failed")
                ELSE Tail2(s, d, id)
          [] tk.pc = "flush" ->
                End([(IF o = "fail" THEN Emit(s, <<"set_dps_failed", d>>) ELSE s)
                        EXCEPT !.pending_status[d] = EmptyDict], d, id)
          [] OTHER -> s

(* What the awaited call may answer: the environment's choice. *)
Outcomes(s, d, id) ==
    LET tk == s.tasks[d][id]
        up == s.interface[d] \in s.alive
    IN  CASE tk.pc \in {"start", "r_sleep"} -> {"go"}
          [] tk.pc \in {"r_send", "flush"} -> {"go", "fail"}
          [] tk.pc = "dial" ->
                IF s.now \in s.cfg.down[d] THEN {"fail"}
                ELSE (IF NextTid(s) # None THEN {"ok"} ELSE {}) \cup s.cfg.dialFails[d]
          [] tk.pc \in {"key", "key2"} -> s.cfg.keyOutcomes[d]
          [] tk.pc = "reset" -> IF up THEN {"ok", "error"} ELSE {"error"}
          [] tk.pc = "status" ->
                (IF up THEN s.cfg.statusVals ELSE {"none"}) \cup s.cfg.statusFails[d]
          [] tk.pc = "gather" ->
                IF \/ \A p \in tk.aw : TaskDone(s, p)
                   \/ \E p \in tk.aw : s.tasks[p[1]][p[2]].pc = "failed"
                THEN {"go"} ELSE {}
          [] tk.pc \in {"r_wait1", "r_wait2"} ->
                IF \A p \in tk.aw : TaskDone(s, p) THEN {"go"} ELSE {}
          [] OTHER -> {}

-----------------------------------------------------------------------------
(* Task.cancel(): the CancelledError is raised at the await the task is    *)
(* suspended at.  The bare except of line 333 swallows it at the awaits of *)
(* lines 310 and 315; everywhere else it ends the task.                    *)

Cancel(s, d, id) ==
    LET pc == s.tasks[d][id].pc
    IN  IF pc \in Finished \cup {"none"} THEN s
        ELSE IF pc \in {"reset", "status"} THEN ExceptPost(s, d, id, "cancel")
        ELSE Finish(s, d, id, "cancelled")

RECURSIVE DeliverCancels(_)
DeliverCancels(s) ==
    IF s.cx = <<>> THEN s
    ELSE LET p == Head(s.cx)
         IN  DeliverCancels(Cancel([s EXCEPT !.cx = Tail(@)], p[1], p[2]))

-----------------------------------------------------------------------------
(* disconnected, lines 549-574 *)

(* the loop of lines 559-561 left out *)
CascadeSubs_skipped(s, subs) == s

RECURSIVE disconnected(_, _)
RECURSIVE CascadeSubs(_, _)
CascadeSubs(s, subs) ==
    IF subs = {} THEN s
    ELSE LET x == CHOOSE y \in subs : TRUE
         IN  CascadeSubs(disconnected(s, x), subs \ {x})

disconnected(s, d) ==
    LET sleep_time == s.cfg.sleep_time[d]
        s1 == Emit([s EXCEPT !.unsub_interval[d] = FALSE, !.interface[d] = None,
                            !.extConn[d] = FALSE],
                   <<"disconnected", d>>)
        s2 == CascadeSubs(s1, s1.sub_devices[d])
        s3 == IF s2.connect_task[d] # None
              THEN [s2 EXCEPT !.cx = Append(@, <<d, s2.connect_task[d]>>),
                              !.connect_task[d] = None]
              ELSE s2
        s4 == IF ~s3.is_closing[d] /\ ~is_subdevice(s3, d)
              THEN [s3 EXCEPT !.timers = @ \cup {Timer("connect", d, s.now + ReconnectDelay)}]
              ELSE s3
    IN  IF ~s4.is_closing[d]
        THEN LET tm == Timer("shutdown", d, s.now + sleep_time + ShutdownGrace)
             IN  [s4 EXCEPT !.timers = @ \cup {tm},
                            !.shutdown_entities_delay[d] = tm,
                            !.lastDisc[d] = s.now]
        ELSE s4

-----------------------------------------------------------------------------
(* close, lines 398-412 *)

CloseRest(s, d) ==
    LET s1 == IF s.interface[d] # None
              THEN [CloseTransport(s, s.interface[d]) EXCEPT !.interface[d] = None]
              ELSE s
        s2 == IF s1.disconnect_task[d] = "active"
              THEN [s1 EXCEPT !.subscriptions[d] = @ - 1, !.disconnect_task[d] = "removed"]
              ELSE s1
    IN  [s2 EXCEPT !.closer[d] = None, !.closed[d] = TRUE]

(* line 405 onwards, once the awaited task is finished *)
CloseAwaited(s, d, id) ==
    IF s.tasks[d][id].pc = "done"
    THEN CloseRest([s EXCEPT !.connect_task[d] = None], d)
    ELSE [s EXCEPT !.closer[d] = None]

close(s, d) ==
    LET s1 == [s EXCEPT !.is_closing[d] = TRUE]
        s2 == IF s1.shutdown_entities_delay[d] # NoTimer
              THEN [s1 EXCEPT !.timers = @ \ {s1.shutdown_entities_delay[d]}]
              ELSE s1
    IN  IF s2.connect_task[d] # None
        THEN LET id == s2.connect_task[d]
                 s3 == Cancel(s2, d, id)
             IN  IF TaskDone(s3, <<d, id>>)
                 THEN CloseAwaited(s3, d, id)
                 ELSE [s3 EXCEPT !.closer[d] = id]
        ELSE CloseRest(s2, d)

-----------------------------------------------------------------------------
(* The set_dp() calls made from outside (an entity's write). *)

WriterAfter(r, w) ==
    CASE r.pc = "ret" -> [w EXCEPT !.pc = "done", !.aw = {}]
      [] r.pc \in {"raise", "cancel"} -> [w EXCEPT !.pc = "raised", !.aw = {}]
      [] OTHER -> [w EXCEPT !.pc = r.pc, !.aw = r.aw]

NoSelf == <<"none", 0>>

WriterStep(s, i) ==
    LET w == s.writers[i]
        r == CASE w.pc = "sleep" -> set_values(s, w.dev, NoSelf)
               [] w.pc \in {"wait1", "wait2"} -> set_values_resume(s, w.dev, NoSelf, w.pc, w.aw)
               [] OTHER -> Res(s, "ret", {})
    IN  [r.s EXCEPT !.writers[i] = WriterAfter(r, w)]

WriterReady(s, i) ==
    LET w == s.writers[i]
    IN  \/ w.pc \in {"sleep", "send"}
        \/ w.pc \in {"wait1", "wait2"} /\ \A p \in w.aw : TaskDone(s, p)

-----------------------------------------------------------------------------
(* Actions *)

(* async_connect called from outside *)
Connect(d) ==
    /\ d \in cfg.devs
    /\ CanConnect(Cur, d)
    /\ FreeTask(Cur, d) # None
    /\ LET s0 == [Cur EXCEPT !.extConn[d] = TRUE]
           s1 == async_connect(s0, d)
       IN  Commit(Emit(s1, IF Awaited(s0, s1, d) # {}
                           THEN <<"connect_awaits", d>>
                           ELSE <<"connect_returns", d>>))

(* a _make_connection task runs from one await to the next *)
TaskStep(d, id) ==
    /\ d \in cfg.devs
    /\ id \in DOMAIN tasks[d]
    /\ \E o \in Outcomes(Cur, d, id) : Commit(Step(Cur, d, id, o))

(* the Transport loses its socket and calls its listener's disconnected() *)
TransportLost(t) ==
    /\ t \in alive
    /\ Commit(DeliverCancels(disconnected([Cur EXCEPT !.alive = @ \ {t}], opener[t])))

(* close() called from outside, up to its await of the connect task *)
Close(d) ==
    /\ d \in cfg.closable
    /\ closer[d] = None
    /\ ~is_closing[d]
    /\ Commit(close(Cur, d))

(* close() called again once an earlier call has ended *)
CloseAgain(d) ==
    /\ d \in cfg.closable
    /\ closer[d] = None
    /\ is_closing[d]
    /\ Commit(close(Cur, d))

CloseResume(d) ==
    /\ closer[d] # None
    /\ TaskDone(Cur, <<d, closer[d]>>)
    /\ Commit(CloseAwaited(Cur, d, closer[d]))

(* an async_call_later timer fires *)
TimerFire(tm) ==
    /\ tm \in timers
    /\ tm.at <= now
    /\ LET s == [Cur EXCEPT !.timers = @ \ {tm}]
       IN  IF tm.kind = "connect"
           THEN Commit(async_connect(s, tm.dev))
           ELSE Commit(_shutdown_entities(s, tm.dev))

(* a second passes; the timers that are due fire first *)
Tick ==
    /\ now < cfg.maxTime
    /\ \A tm \in timers : tm.at > now
    /\ Commit([Cur EXCEPT !.now = @ + 1])

(* set_dp(v, "1") called from outside *)
Write(d, v) ==
    /\ d \in cfg.writable
    /\ v \in cfg.writeVals
    /\ Len(writers) < cfg.maxWrites
    /\ LET r == set_dp(Cur, d, v)
           w == [dev |-> d, val |-> v, pc |-> "sleep", aw |-> {},
                 tid |-> interface[d], base |-> Len(sent[d]),
                 early |-> {i \in 1..Len(writers) :
                               writers[i].dev = d /\ writers[i].pc = "sleep"}]
       IN  Commit([r.s EXCEPT !.writers = Append(@, WriterAfter(r, w))])

WriterRun(i) ==
    /\ i \in 1..Len(writers)
    /\ WriterReady(Cur, i)
    /\ \E o \in (IF writers[i].pc = "send" THEN {"go", "fail"} ELSE {"go"}) :
            Commit(WriterStep(IF o = "fail"
                              THEN Emit(Cur, <<"set_dps_failed", writers[i].dev>>)
                              ELSE Cur, i))

(* the Transport reports a status of its own accord *)
StatusPush(d, o) ==
    /\ d \in cfg.devs
    /\ o \in cfg.pushVals
    /\ interface[d] \in alive
    /\ Commit(status_updated(Cur, d, StatusOf(o)))

(* the Transport dispatches a message: it records the DPs the message    *)
(* carries                                                                *)
Dispatch(t, o) ==
    /\ t \in alive
    /\ o \in cfg.pushVals
    /\ dispatched_dps[t] # StatusOf(o)
    /\ Commit([Cur EXCEPT !.dispatched_dps[t] = StatusOf(o)])

(* _new_entity_handler that publishes nothing *)
_new_entity_handler_silent(s, d) == s

(* lines 345-347 *)
_new_entity_handler(s, d) == _dispatch_status(s, d)

(* lines 642-643: the signal runs the handler of every subscription made at *)
(* line 350 and not yet removed                                              *)
RECURSIVE async_dispatcher_send(_, _, _)
async_dispatcher_send(s, d, n) ==
    IF n = 0 THEN s ELSE async_dispatcher_send(_new_entity_handler(s, d), d, n - 1)

(* async_added_to_hass, lines 608-644 *)
Attach(d) ==
    /\ d \in cfg.devs
    /\ cfg.entity[d].present
    /\ ~attached[d]
    /\ LET s1 == IF Cur.cfg.entity[d].stored.present THEN status_restored(Cur, d) ELSE Cur
           s2 == [s1 EXCEPT !.attached[d] = TRUE]
       IN  Commit(Emit(async_dispatcher_send(s2, d, s2.subscriptions[d]), <<"attached", d>>))

-----------------------------------------------------------------------------
(* Configurations *)

NoStored == [present |-> FALSE, state |-> NoneV, attr |-> NoneV]

NoEntity ==
    [present |-> FALSE, restore_on_reconnect |-> FALSE, passive_entity |-> FALSE,
     default_value |-> NoneV, stored |-> NoStored]

BaseCfg ==
    [devs |-> {"gw"}, node_id |-> [d \in Dev |-> d = "sub"],
     fake_gateway |-> [d \in Dev |-> FALSE],
     sleep_time |-> [d \in Dev |-> 0], scan_interval |-> [d \in Dev |-> 0],
     reset_dps |-> [d \in Dev |-> FALSE],
     entity |-> [d \in Dev |-> NoEntity],
     closable |-> {}, writable |-> {}, writeVals |-> {}, pushVals |-> {},
     maxTasks |-> MaxTasks, maxOpens |-> MaxOpens, maxTime |-> MaxTime,
     maxWrites |-> 0,
     down |-> [d \in Dev |-> {}],
     dialFails |-> [d \in Dev |-> {"fail"}], keyOutcomes |-> [d \in Dev |-> {"ok"}],
     statusVals |-> {"v1"}, statusFails |-> [d \in Dev |-> {"none"}]]

InitWith(c) ==
    /\ cfg = c
    /\ now = 0
    /\ interface = [d \in Dev |-> None]
    /\ connect_task = [d \in Dev |-> None]
    /\ tasks = [d \in Dev |-> [i \in 1..c.maxTasks |-> NoTask]]
    /\ is_closing = [d \in Dev |-> FALSE]
    /\ closer = [d \in Dev |-> None]
    /\ status = [d \in Dev |-> EmptyDict]
    /\ last_update_time = [d \in Dev |-> 0 - InitAge]
    /\ pending_status = [d \in Dev |-> EmptyDict]
    /\ sub_devices = [d \in Dev |-> {}]
    /\ gwateway = [d \in Dev |-> "none"]
    /\ shutdown_entities_delay = [d \in Dev |-> NoTimer]
    /\ subscriptions = [d \in Dev |-> 0]
    /\ disconnect_task = [d \in Dev |-> "none"]
    /\ timers = {}
    /\ alive = {}
    /\ opener = [t \in 1..c.maxOpens |-> "none"]
    /\ writers = <<>>
    /\ attached = [d \in Dev |-> FALSE]
    /\ e_status = [d \in Dev |-> EmptyDict]
    /\ e_state = [d \in Dev |-> NoneV]
    /\ e_last_state = [d \in Dev |-> NoneV]
    /\ sent = [d \in Dev |-> <<>>]
    /\ lastDisc = [d \in Dev |-> 0 - 1]
    /\ closed = [d \in Dev |-> FALSE]
    /\ extConn = [d \in Dev |-> FALSE]
    /\ unsub_interval = [d \in Dev |-> FALSE]
    /\ dispatched_dps = [t \in 1..c.maxOpens |-> EmptyDict]
    /\ cache = [d \in Dev |-> EmptyDict]
    /\ events = <<>>
    /\ out = {}

-----------------------------------------------------------------------------
(* Spec: one device, always reachable or sleeping, plain or a fake         *)
(* gateway: connects, disconnects, the timers, close.                      *)

Init ==
    \E sl \in {0, 2}, fake \in BOOLEAN :
        InitWith([BaseCfg EXCEPT !.closable = {"gw"}, !.sleep_time["gw"] = sl,
                                 !.node_id["gw"] = fake, !.fake_gateway["gw"] = fake])

Next ==
    \/ \E d \in Dev : Connect(d)
    \/ \E d \in Dev, id \in 1..MaxTasks : TaskStep(d, id)
    \/ \E t \in 1..MaxOpens : TransportLost(t)
    \/ \E d \in Dev : Close(d)
    \/ \E d \in Dev : CloseAgain(d)
    \/ \E d \in Dev : CloseResume(d)
    \/ \E tm \in timers : TimerFire(tm)
    \/ Tick

Spec == Init /\ [][Next]_vars

(* a connect run that has started and has not finished *)
Running(d) == {id \in DOMAIN tasks[d] : tasks[d][id].pc \notin Finished \cup {"none"}}

\* C2: connectTask is present exactly when a connect run of the device has
\* started and has not finished; it is absent after every run has ended,
\* whether by success, failure, abort, cancellation or exception.
C2_TaskPresentIffRunning ==
    \A d \in cfg.devs : (connect_task[d] # None) <=> (Running(d) # {})

\* C9: after an unexpected disconnect no unavailable notification reaches the
\* entities earlier than sleepTime + 3 seconds after that disconnect, whatever
\* becomes of the reconnect attempt scheduled one second after it (stated for
\* a plain device and with no other connect() call made in between).
C9_NoEarlyUnavailable ==
    \A d \in cfg.devs :
        (/\ <<"unavailable", d>> \in out
         /\ lastDisc[d] >= 0
         /\ ~extConn[d]
         /\ ~cfg.fake_gateway[d])
            => now >= lastDisc[d] + cfg.sleep_time[d] + ShutdownGrace

\* C10: the shutdown notification is never delivered while the device is
\* connected; a shutdown timer that fires on a connected device delivers nothing.
C10_NoShutdownWhileConnected ==
    \A d \in cfg.devs : <<"unavailable", d>> \in out => interface[d] = None

C10_Witness ==
    \E d \in cfg.devs :
        /\ <<"shutdown_skipped", d>> \in out
        /\ interface[d] # None
        /\ lastDisc[d] >= 0

-----------------------------------------------------------------------------
(* SpecRace: one device and one set_dp() call, so that a connect run can be *)
(* suspended in the flush of line 371.                                      *)

InitRace ==
    \E sl \in {0, 2} :
        InitWith([BaseCfg EXCEPT !.closable = {"gw"}, !.writable = {"gw"},
                                 !.writeVals = {"v1"}, !.sleep_time["gw"] = sl,
                                 !.maxTasks = RaceTasks, !.maxOpens = RaceOpens,
                                 !.maxTime = RaceTime, !.maxWrites = RaceWrites])

NextRace ==
    \/ \E d \in Dev : Connect(d)
    \/ \E d \in Dev, id \in 1..RaceTasks : TaskStep(d, id)
    \/ \E t \in 1..RaceOpens : TransportLost(t)
    \/ \E d \in Dev : Close(d)
    \/ \E d \in Dev : CloseResume(d)
    \/ \E tm \in timers : TimerFire(tm)
    \/ Tick
    \/ \E d \in Dev, v \in {"v1"} : Write(d, v)
    \/ \E i \in 1..RaceWrites : WriterRun(i)

SpecRace == InitRace /\ [][NextRace]_vars

\* C1: a device never has two Transport-establishing attempts in progress at
\* once, for any interleaving of connect() calls, disconnect callbacks and
\* timer firings.
C1_OneAttempt ==
    \A d \in cfg.devs :
        Cardinality({id \in DOMAIN tasks[d] : tasks[d][id].pc = "dial"}) <= 1

\* C3: once close() has been called and has returned, the manager holds no
\* Transport, and it never acquires one again.
C3_ClosedHoldsNoTransport ==
    \A d \in cfg.devs : closed[d] => interface[d] = None

-----------------------------------------------------------------------------
(* SpecGw: a gateway, plain or fake, and one subdevice behind it. *)

InitGw ==
    \E fake \in BOOLEAN :
        InitWith([BaseCfg EXCEPT !.devs = {"gw", "sub"},
                                 !.node_id["gw"] = fake, !.fake_gateway["gw"] = fake,
                                 !.maxTasks = GwTasks, !.maxOpens = GwOpens,
                                 !.maxTime = GwTime])

NextGw ==
    \/ \E d \in Dev : Connect(d)
    \/ \E d \in Dev, id \in 1..GwTasks : TaskStep(d, id)
    \/ \E t \in 1..GwOpens : TransportLost(t)
    \/ \E tm \in timers : TimerFire(tm)
    \/ Tick

SpecGw == InitGw /\ [][NextGw]_vars

\* C4: a subdevice (node id set, not a fake gateway) never opens a Transport
\* of its own; a Transport it holds is one its gateway opened.
C4_SubdeviceAdoptsOnly ==
    \A d \in cfg.devs :
        (cfg.node_id[d] /\ ~cfg.fake_gateway[d]) =>
            /\ \A t \in DOMAIN opener : opener[t] # d
            /\ interface[d] # None =>
                   /\ gwateway[d] # "none"
                   /\ d \in sub_devices[gwateway[d]]
                   /\ opener[interface[d]] = gwateway[d]

C4_Witness ==
    \E d \in cfg.devs :
        /\ cfg.node_id[d] /\ ~cfg.fake_gateway[d]
        /\ interface[d] # None /\ interface[d] \in alive

\* C5: when a gateway's disconnected() runs, every subdevice registered with
\* it has been disconnected too by the end of that callback, before any
\* subdevice connect can start; and no reconnect is ever scheduled for a
\* subdevice.
C5_CascadeAndNoSubReconnect ==
    /\ \A g \in cfg.devs :
           <<"disconnected", g>> \in out =>
               \A sd \in sub_devices[g] :
                   interface[sd] = None /\ <<"disconnected", sd>> \in out
    /\ \A tm \in timers :
           tm.kind = "connect" => ~(cfg.node_id[tm.dev] /\ ~cfg.fake_gateway[tm.dev])

C5_Witness ==
    \E g \in cfg.devs, sd \in cfg.devs :
        /\ sd \in sub_devices[g]
        /\ disconnect_task[sd] = "active"
        /\ <<"disconnected", g>> \in out
        /\ <<"disconnected", sd>> \in out
        /\ \E tm \in timers : tm.kind = "connect" /\ tm.dev = g

-----------------------------------------------------------------------------
(* SpecWrite: one device, always reachable or sleeping, and the set_dp()   *)
(* calls of its entities; no time passes.                                  *)

InitWrite ==
    \E sl \in {0, 2} :
        InitWith([BaseCfg EXCEPT !.writable = {"gw"}, !.writeVals = {"v1", "v2"},
                                 !.sleep_time["gw"] = sl,
                                 !.maxTasks = WrTasks, !.maxOpens = WrOpens,
                                 !.maxTime = 0, !.maxWrites = WrWrites])

NextWrite ==
    \/ \E d \in Dev : Connect(d)
    \/ \E d \in Dev, id \in 1..WrTasks : TaskStep(d, id)
    \/ \E t \in 1..WrOpens : TransportLost(t)
    \/ \E d \in Dev, v \in {"v1", "v2"} : Write(d, v)
    \/ \E i \in 1..WrWrites : WriterRun(i)

SpecWrite == InitWrite /\ [][NextWrite]_vars

(* the setDps calls made on d after the first n that carry DP "1" *)
SentAfter(d, n) == {k \in (n + 1)..Len(sent[d]) : DpId \in DOMAIN sent[d][k].p}

\* C6: when set_dp(v1) and then set_dp(v2) are called for one DP of a device
\* that is connected, the second before the first caller's flush has run and
\* with no set_dps sent in between, and both calls have returned with the
\* device still on that Transport, the Transport has received exactly one
\* set_dps for them and it carries v2.
C6_CoalescedToLast ==
    \A i, j \in 1..Len(writers) :
        (/\ j = i + 1 /\ j = Len(writers)
         /\ writers[i].dev = writers[j].dev
         /\ writers[i].val = "v1" /\ writers[j].val = "v2"
         /\ writers[i].tid # None /\ writers[j].tid = writers[i].tid
         /\ i \in writers[j].early /\ writers[j].base = writers[i].base
         /\ writers[i].pc = "done" /\ writers[j].pc = "done"
         /\ interface[writers[i].dev] = writers[i].tid
         /\ writers[i].tid \in alive)
        => LET d == writers[i].dev
               ks == SentAfter(d, writers[i].base)
           IN  /\ Cardinality(ks) = 1
               /\ \A k \in ks : sent[d][k].p[DpId] = writers[j].val

\* C7: on a disconnected device with sleep_time > 0 no set_dp() call is
\* dropped, whatever the time since the last status update: its value, or the
\* value of a later call for the same DP, is in the pending writes or has
\* been handed to the Transport since.
C7_SleepWritesRetained ==
    \A i \in 1..Len(writers) :
        LET d == writers[i].dev
            later == {writers[j].val : j \in i..Len(writers)}
        IN  (writers[i].tid = None /\ cfg.sleep_time[d] > 0)
            => \/ dp_value(pending_status[d]) \in later
               \/ \E k \in SentAfter(d, writers[i].base) : sent[d][k].p[DpId] \in later

-----------------------------------------------------------------------------
(* SpecEntity: one device with one entity on DP "1", of every restore      *)
(* configuration, with or without a state in the durable store.            *)

StoredStates ==
    {NoStored,
     [present |-> TRUE, state |-> "s1", attr |-> "a1"],
     [present |-> TRUE, state |-> STATE_UNKNOWN, attr |-> NoneV]}

InitEntity ==
    \E roc \in BOOLEAN, pas \in BOOLEAN, dv \in {NoneV, "dflt"},
       st \in StoredStates, sl \in {0, 6} :
        InitWith([BaseCfg EXCEPT
                    !.entity["gw"] = [present |-> TRUE, restore_on_reconnect |-> roc,
                                      passive_entity |-> pas, default_value |-> dv,
                                      stored |-> st],
                    !.sleep_time["gw"] = sl,
                    !.statusVals = {"v1", "nodp"}, !.pushVals = {"v2"},
                    !.maxTasks = EnTasks, !.maxOpens = EnOpens, !.maxTime = 0])

NextEntity ==
    \/ \E d \in Dev : Connect(d)
    \/ \E d \in Dev, id \in 1..EnTasks : TaskStep(d, id)
    \/ \E t \in 1..EnOpens : TransportLost(t)
    \/ \E d \in Dev : Attach(d)
    \/ \E d \in Dev, o \in StatusVals : StatusPush(d, o)

SpecEntity == InitEntity /\ [][NextEntity]_vars

(* the entity has no current value *)
NoCurrent(d) == e_state[d] \in {NoneV, STATE_UNKNOWN}

(* the value of the durable store, as the entity read it when it was added *)
Durable(d) ==
    IF attached[d] /\ cfg.entity[d].stored.present
    THEN cfg.entity[d].stored.attr
    ELSE NoneV

\* C8 as stated: the restore hook writes the durable store's value when there
\* is one, else the entity's in-memory value when there is one, else the
\* default of its type.
C8_DurableFirst ==
    \A d \in cfg.devs, v \in {"v1", "v2", "s1", "a1", "dflt", "0"} :
        <<"restore_write", d, v>> \in out =>
            IF Durable(d) # NoneV THEN v = Durable(d)
            ELSE IF ~NoCurrent(d) THEN v = e_state[d]
            ELSE IF e_last_state[d] # NoneV THEN v = e_last_state[d]
            ELSE v = entity_default_value(cfg.entity[d])

\* C8 amended: the restore hook writes the entity's current in-memory value
\* when it has one; else the last value it recorded, which is the durable
\* store's value until a status received outside a connect replaces it;
\* else, and for a passive entity only, the default.
C8_CurrentFirst ==
    \A d \in cfg.devs, v \in {"v1", "v2", "s1", "a1", "dflt", "0"} :
        <<"restore_write", d, v>> \in out =>
            /\ ~NoCurrent(d) => v = e_state[d]
            /\ (NoCurrent(d) /\ e_last_state[d] # NoneV) => v = e_last_state[d]
            /\ (NoCurrent(d) /\ e_last_state[d] = NoneV) =>
                   /\ cfg.entity[d].passive_entity
                   /\ v = (IF cfg.entity[d].default_value = NoneV
                           THEN "0" ELSE cfg.entity[d].default_value)

C8_Witness ==
    \E d \in cfg.devs :
        /\ <<"restore_write", d, "a1">> \in out
        /\ NoCurrent(d)
        /\ Durable(d) = "a1"

-----------------------------------------------------------------------------
(* SpecKey: one device whose connect can fail on its key, with a Cloud API *)
(* lookup that answers or raises.                                          *)

InitKey ==
    \E sl \in {0, 2, 6} :
        InitWith([BaseCfg EXCEPT !.sleep_time["gw"] = sl,
                                 !.dialFails["gw"] = {"fail", "key"},
                                 !.keyOutcomes["gw"] = {"ok", "raise"},
                                 !.statusFails["gw"] = {"none", "decode"},
                                 !.maxTasks = KeyTasks, !.maxOpens = KeyOpens,
                                 !.maxTime = 0])

NextKey ==
    \/ \E d \in Dev : Connect(d)
    \/ \E d \in Dev, id \in 1..KeyTasks : TaskStep(d, id)
    \/ \E t \in 1..KeyOpens : TransportLost(t)

SpecKey == InitKey /\ [][NextKey]_vars

\* C11: whatever the key lookup of update_local_key answers (an error
\* included), no connect run ends with an exception: the run ends normally,
\* with connectTask cleared.
C11_KeyFailureContained ==
    \A d \in cfg.devs : \A id \in DOMAIN tasks[d] :
        /\ tasks[d][id].pc # "failed"
        /\ (tasks[d][id].pc = "done" /\ Running(d) = {}) => connect_task[d] = None

\* C21: one connect run makes at most 3 Transport-open attempts; it makes its
\* first when it starts, a further one only after the previous one failed (no
\* Transport was opened by it), each counted one up, and none after an
\* attempt that succeeded.
C21_AtMostThreeOpens ==
    [][\A d \in cfg.devs :
         \A id \in DOMAIN tasks[d] :
            LET tk == tasks[d][id]
                tk1 == tasks'[d][id]
            IN  /\ tk1.pc = "dial" => tk1.retry \in 1..3
                /\ (tk1.pc = "dial" /\ tk1 # tk) =>
                        \/ tk.pc = "start" /\ tk1.retry = 1
                        \/ /\ tk.pc \in {"dial", "key"}
                           /\ tk1.retry = tk.retry + 1
                           /\ alive' \subseteq alive
                /\ (tk1.pc = "key" /\ tk1 # tk) =>
                        tk.pc = "dial" /\ tk1.retry = tk.retry /\ alive' \subseteq alive
                /\ (tk.pc = "dial" /\ tk1 # tk /\ ~(alive' \subseteq alive)) =>
                        tk1.pc \notin {"dial", "key", "start"}]_vars

(* a run is at its third attempt to open a Transport *)
C21_Witness ==
    \E d \in cfg.devs :
        \E id \in DOMAIN tasks[d] : tasks[d][id].pc = "dial" /\ tasks[d][id].retry = 3

-----------------------------------------------------------------------------
(* SpecGather: a gateway and a subdevice whose connect can end with an     *)
(* exception (its status cannot be decoded and its key lookup raises).     *)

InitGather ==
    InitWith([BaseCfg EXCEPT !.devs = {"gw", "sub"},
                             !.statusFails["sub"] = {"none", "decode"},
                             !.keyOutcomes["sub"] = {"ok", "raise"},
                             !.maxTasks = GaTasks, !.maxOpens = GaOpens,
                             !.maxTime = 0])

NextGather ==
    \/ \E d \in Dev : Connect(d)
    \/ \E d \in Dev, id \in 1..GaTasks : TaskStep(d, id)
    \/ \E t \in 1..GaOpens : TransportLost(t)

SpecGather == InitGather /\ [][NextGather]_vars

\* C12: whatever happens in the connect of a subdevice, an exception raised
\* inside it included, the connect run of its gateway does not end with an
\* exception: it goes on to the flush of its pending writes and ends
\* normally.
C12_GatewayRunCompletes ==
    \A d \in cfg.devs :
        ~(cfg.node_id[d] /\ ~cfg.fake_gateway[d]) =>
            \A id \in DOMAIN tasks[d] : tasks[d][id].pc # "failed"

(* C13: the device's cache is modified only by the status-update path.   *)
(* cache follows every write of status_updated and nothing else, so the  *)
(* claim is that _status always equals it: delivering a published        *)
(* status, the restore marker handled by an entity with a stored state   *)
(* included, leaves _status as status_updated wrote it.                  *)
C13_CacheOnlyByUpdatePath ==
    \A d \in cfg.devs : status[d] = cache[d]

\* C17: connect() on a passive device (sleepTime > 0) returns to its caller
\* without waiting for the run it started, and connect() on a device with
\* sleepTime = 0 awaits that run.
C17_PassiveNotAwaited ==
    \A d \in cfg.devs :
        /\ <<"connect_awaits", d>> \in out => cfg.sleep_time[d] = 0
        /\ <<"connect_returns", d>> \in out => cfg.sleep_time[d] > 0

\* C18: a connect run of a device with sleepTime > 0 never reaches its first
\* Transport open with an empty cache: the restore marker was put there when
\* the run started, whatever sleepTime is and whatever time has passed since
\* the device was constructed.
C18_SeededBeforeOpen ==
    \A d \in cfg.devs :
        \A id \in DOMAIN tasks[d] :
            (tasks[d][id].pc = "dial" /\ cfg.sleep_time[d] > 0 /\ ~cfg.fake_gateway[d])
                => status[d] # EmptyDict

(* ---- a subdevice with and without its gateway ---- *)

InitSub ==
    \E ds \in {{"sub"}, {"gw", "sub"}}, sl \in {0, 6} :
        InitWith([BaseCfg EXCEPT !.devs = ds, !.sleep_time["sub"] = sl,
                                 !.maxTasks = SuTasks, !.maxOpens = SuOpens,
                                 !.maxTime = 0])

NextSub ==
    \/ \E d \in Dev : Connect(d)
    \/ \E d \in Dev, id \in 1..SuTasks : TaskStep(d, id)
    \/ \E t \in 1..SuOpens : TransportLost(t)

SpecSub == InitSub /\ [][NextSub]_vars

(* the gateway of the subdevices is absent, or holds no Transport while   *)
(* a connect run of it is under way                                       *)
GatewayUnavailable ==
    \/ "gw" \notin cfg.devs
    \/ interface["gw"] = None /\ connect_task["gw"] # None

\* C20: when a connect run of a subdevice starts while its gateway cannot be
\* found, or while the gateway is not connected and is itself connecting, the
\* run ends in that very step: the subdevice holds no Transport, its
\* connectTask is cleared, no Transport was opened and no further attempt of
\* the retry loop was made.
C20_AbortsAtOnce ==
    [][\A d \in cfg.devs :
         \A id \in DOMAIN tasks[d] :
            (/\ cfg.node_id[d] /\ ~cfg.fake_gateway[d]
             /\ tasks[d][id].pc = "start"
             /\ tasks'[d][id].pc \notin {"start", "cancelled"}
             /\ GatewayUnavailable)
            => /\ tasks'[d][id].pc = "done"
               /\ interface'[d] = None
               /\ connect_task'[d] = None
               /\ alive' = alive
               /\ <<"retry", d>> \notin out']_vars

(* a run of the subdevice has just ended at lines 276-277 while its       *)
(* gateway was connecting                                                 *)
C20_Witness ==
    /\ <<"no_gateway", "sub">> \in out
    /\ "gw" \in cfg.devs
    /\ interface["gw"] = None
    /\ connect_task["gw"] # None

(* ---- one device with an entity, a refresh interval and queued writes ---- *)

InitStatus ==
    \E sl \in {0, 6}, roc \in BOOLEAN :
        InitWith([BaseCfg EXCEPT
                    !.entity["gw"] = [present |-> TRUE, restore_on_reconnect |-> roc,
                                      passive_entity |-> TRUE, default_value |-> "dflt",
                                      stored |-> NoStored],
                    !.sleep_time["gw"] = sl, !.scan_interval["gw"] = 1,
                    !.writable = {"gw"}, !.writeVals = {"w1"},
                    !.maxTasks = StTasks, !.maxOpens = StOpens, !.maxTime = 0,
                    !.maxWrites = StWrites])

NextStatus ==
    \/ \E d \in Dev : Connect(d)
    \/ \E d \in Dev, id \in 1..StTasks : TaskStep(d, id)
    \/ \E t \in 1..StOpens : TransportLost(t)
    \/ \E d \in Dev : Attach(d)
    \/ \E d \in Dev, v \in {"w1"} : Write(d, v)
    \/ \E i \in 1..StWrites : WriterRun(i)

SpecStatus == InitStatus /\ [][NextStatus]_vars

\* C22: a flush hands the Transport all of PendingWrites and empties
\* PendingWrites in that same step; when the set_dps call then fails, the step
\* that sees the failure puts nothing into PendingWrites, and whatever is
\* sent is what PendingWrites held, so a later flush never sends the failed
\* values again.
C22_FlushTakesAndKeepsNothing ==
    [][\A d \in cfg.devs :
         /\ sent'[d] # sent[d] =>
                /\ pending_status[d] # EmptyDict
                /\ sent'[d] = Append(sent[d], [t |-> interface[d], p |-> pending_status[d]])
                /\ pending_status'[d] = EmptyDict
         /\ <<"set_dps_failed", d>> \in out' =>
                \A k \in DOMAIN pending_status'[d] :
                    /\ k \in DOMAIN pending_status[d]
                    /\ pending_status'[d][k] = pending_status[d][k]]_vars

(* a set_dps call that carried a value has failed *)
C22_Witness ==
    \E d \in cfg.devs :
        /\ <<"set_dps_failed", d>> \in out
        /\ sent[d] # <<>>

\* C23: a set_dp on a device that is disconnected and not passive
\* (sleepTime = 0) returns at once, leaves PendingWrites unchanged and sends
\* nothing; and nothing is sent for it later either: every written value a
\* Transport of such a device ever receives was written while the device was
\* connected.
C23_DroppedWhenDisconnected ==
    [][\A d \in cfg.devs :
         cfg.sleep_time[d] = 0 =>
            /\ (/\ Len(writers') = Len(writers) + 1
                /\ writers'[Len(writers')].dev = d
                /\ interface[d] = None)
               => /\ pending_status'[d] = pending_status[d]
                  /\ sent' = sent
                  /\ writers'[Len(writers')].pc = "done"
            /\ \A k \in 1..Len(sent'[d]) :
                    sent'[d][k].p[DpId] \in cfg.writeVals =>
                        \E i \in 1..Len(writers') :
                            /\ writers'[i].dev = d
                            /\ writers'[i].val = sent'[d][k].p[DpId]
                            /\ writers'[i].tid # None]_vars

(* a value was written to a disconnected device with sleepTime = 0, which *)
(* is connected now and has been sent something                           *)
C23_Witness ==
    \E d \in cfg.devs :
        /\ cfg.sleep_time[d] = 0
        /\ \E i \in 1..Len(writers) : writers[i].dev = d /\ writers[i].tid = None
        /\ interface[d] # None
        /\ sent[d] # <<>>

\* C19: when the status query made after a Transport is obtained returns
\* nothing, the connect run ends with the device holding no Transport, and
\* the run starts no heartbeat, arms no refresh timer, invokes no restore hook
\* and flushes no pending writes.
C19_StatusNoneAborts ==
    \A d \in cfg.devs :
        <<"status_none", d>> \in out =>
            /\ interface[d] = None
            /\ connect_task[d] = None
            /\ out \cap {<<"heartbeat", d>>, <<"interval", d>>, <<"restore_hook", d>>,
                         <<"flush", d>>} = {}

(* the query returned nothing to a run of a device that has an entity     *)
(* attached and a write queued                                            *)
C19_Witness ==
    \E d \in cfg.devs :
        /\ <<"status_none", d>> \in out
        /\ attached[d]
        /\ pending_status[d] # EmptyDict

(* ---- one device, its status updates and the events they fire ---- *)

InitEvents ==
    \E sl \in {0, 6} :
        InitWith([BaseCfg EXCEPT
                    !.sleep_time["gw"] = sl,
                    !.statusVals = {"v1", "empty"},
                    !.pushVals = {"v1", "v2", "nodp", "two", "empty"},
                    !.maxTasks = EvTasks, !.maxOpens = EvOpens, !.maxTime = 0])

NextEvents ==
    \/ \E d \in Dev : Connect(d)
    \/ \E d \in Dev, id \in 1..EvTasks : TaskStep(d, id)
    \/ \E t \in 1..EvOpens : TransportLost(t)
    \/ \E d \in Dev, o \in StatusVals : StatusPush(d, o)
    \/ \E t \in 1..EvOpens, o \in StatusVals : Dispatch(t, o)

SpecEvents == InitEvents /\ [][NextEvents]_vars

(* the calls of status_updated in the last step *)
Updates == {i \in DOMAIN events : events[i].ev = "update"}

(* the events of kind e that the update at position i fired *)
Fired(i, e) ==
    {j \in DOMAIN events :
        /\ j > i
        /\ events[j].ev = e
        /\ \A k \in (i + 1)..j : events[k].ev # "update"}

(* the DPs whose cached value the update changes *)
Changed(old, new) ==
    {k \in DOMAIN new : k \notin DOMAIN old \/ old[k] # new[k]}

\* C14 as stated: device_dp_triggered is emitted if and only if exactly one DP
\* changed in the update, and carries that DP's id and new value; with two or
\* more changed DPs none is emitted.  Stated for the updates whose status is
\* the message the Transport dispatched last.
C14_OneChangedDp ==
    \A i \in Updates :
        events[i].disp = events[i].new =>
            LET ch == Changed(events[i].old, events[i].new)
            IN  /\ Fired(i, "device_dp_triggered") # {} <=> Cardinality(ch) = 1
                /\ \A j \in Fired(i, "device_dp_triggered") :
                        /\ events[j].dp \in ch
                        /\ events[j].value = events[i].new[events[j].dp]

\* C14 as the code has it: device_dp_triggered is emitted if and only if the
\* cache was not empty before the update and the message the Transport
\* dispatched last carried exactly one DP; it carries that DP's id and the
\* value dispatched.
C14_OneDispatchedDp ==
    \A i \in Updates :
        /\ Fired(i, "device_dp_triggered") # {}
                <=> (events[i].old # EmptyDict /\ Cardinality(DOMAIN events[i].disp) = 1)
        /\ \A j \in Fired(i, "device_dp_triggered") :
                /\ events[j].dp \in DOMAIN events[i].disp
                /\ events[j].value = events[i].disp[events[j].dp]

(* an update of two DPs, both changed, fired the event for the single DP *)
(* of the dispatched message                                              *)
C14_Witness ==
    \E i \in Updates :
        /\ Cardinality(Changed(events[i].old, events[i].new)) = 2
        /\ Fired(i, "device_dp_triggered") # {}

\* C15: states_update is emitted exactly when the update changes a cached
\* value; an update that changes none emits no states_update.  Stated for
\* the updates of a cache that is not empty by a status that is not empty.
C15_StatesUpdateIffChanged ==
    \A i \in Updates :
        events[i].old # EmptyDict /\ events[i].new # EmptyDict =>
            (Fired(i, "states_update") # {}
                <=> Changed(events[i].old, events[i].new) # {})

\* C16 as stated: device_triggered is emitted for every update whose new
\* status is not empty, whether or not the cache was empty before, and for
\* no update whose new status is empty.
C16_TriggeredIffNewNonEmpty ==
    \A i \in Updates :
        Fired(i, "device_triggered") # {} <=> events[i].new # EmptyDict

\* C16 as the code has it: device_triggered is emitted for every update of a
\* cache that is not empty, whatever the new status, and for no update of an
\* empty cache.
C16_TriggeredIffCacheNonEmpty ==
    \A i \in Updates :
        Fired(i, "device_triggered") # {} <=> events[i].old # EmptyDict

(* an update with an empty new status fired device_triggered *)
C16_Witness ==
    \E i \in Updates :
        /\ events[i].new = EmptyDict
        /\ events[i].old # EmptyDict
        /\ Fired(i, "device_triggered") # {}

(* the statuses delivered to the entity of d in the last step *)
Delivered(d) ==
    {j \in DOMAIN events : events[j].ev = "delivered" /\ events[j].dev = d}

C25_CacheOnlyGrowsByUpdates ==
    [][\A d \in cfg.devs :
         LET ups == {i \in DOMAIN events' :
                        events'[i].ev = "update" /\ events'[i].dev = d}
             carried == UNION {DOMAIN events'[i].new : i \in ups}
         IN  /\ DOMAIN status[d] \subseteq DOMAIN status'[d]
             /\ \A k \in DOMAIN status'[d] \ carried :
                    k \in DOMAIN status[d] /\ status'[d][k] = status[d][k]
             /\ \A i \in ups :
                    \A k \in DOMAIN events'[i].new :
                        (\A j \in ups : j > i => k \notin DOMAIN events'[j].new)
                            => status'[d][k] = events'[i].new[k]]_vars

(* ---- one device with a refresh interval and one write ---- *)

InitInterval ==
    InitWith([BaseCfg EXCEPT !.scan_interval["gw"] = 1,
                             !.writable = {"gw"}, !.writeVals = {"w1"},
                             !.dialFails["gw"] = {},
                             !.maxTasks = InTasks, !.maxOpens = InOpens,
                             !.maxTime = 0, !.maxWrites = InWrites])

NextInterval ==
    \/ \E d \in Dev : Connect(d)
    \/ \E d \in Dev, id \in 1..InTasks : TaskStep(d, id)
    \/ \E t \in 1..InOpens : TransportLost(t)
    \/ \E d \in Dev, v \in {"w1"} : Write(d, v)
    \/ \E i \in 1..InWrites : WriterRun(i)

SpecInterval == InitInterval /\ [][NextInterval]_vars

\* C26: the periodic refresh timer of a device is armed only while the
\* device is connected and its scanInterval is positive: whenever the device
\* holds no Transport, its timer is not armed.
C26_ArmedOnlyWhileConnected ==
    \A d \in cfg.devs :
        unsub_interval[d] => (interface[d] # None /\ cfg.scan_interval[d] > 0)

(* ---- one device with an entity and a refresh interval, that is closed ---- *)

InitOrder ==
    \E rs \in BOOLEAN, fake \in BOOLEAN :
        InitWith([BaseCfg EXCEPT
                    !.entity["gw"] = [present |-> TRUE, restore_on_reconnect |-> TRUE,
                                      passive_entity |-> TRUE, default_value |-> "dflt",
                                      stored |-> NoStored],
                    !.scan_interval["gw"] = 1, !.reset_dps["gw"] = rs,
                    !.node_id["gw"] = fake, !.fake_gateway["gw"] = fake,
                    !.statusFails["gw"] = {"none", "notfound"},
                    !.closable = {"gw"},
                    !.maxTasks = OrTasks, !.maxOpens = OrOpens, !.maxTime = 0])

NextOrder ==
    \/ \E d \in Dev : Connect(d)
    \/ \E d \in Dev, id \in 1..OrTasks : TaskStep(d, id)
    \/ \E t \in 1..OrOpens : TransportLost(t)
    \/ \E d \in Dev : Close(d)
    \/ \E d \in Dev : CloseAgain(d)
    \/ \E d \in Dev : CloseResume(d)

SpecOrder == InitOrder /\ [][NextOrder]_vars

\* C27: within a connect run the restore hooks, the subscription to added
\* entities, the refresh timer, the connect of the subdevices and the flush
\* come only after the status query returned a status, the heartbeat was
\* started and that status was published: the step of a run that gets past
\* its reset or status query and goes on to any of them is a step that
\* started the heartbeat and published a status of the device (a fake
\* gateway publishes none).
C27_StatusBeforeHooks ==
    [][\A d \in cfg.devs :
         \A id \in DOMAIN tasks[d] :
            (/\ tasks[d][id].pc \in {"reset", "status"}
             /\ tasks'[d][id] # tasks[d][id]
             /\ \/ <<"restore_hook", d>> \in out'
                \/ <<"interval", d>> \in out'
                \/ <<"flush", d>> \in out'
                \/ subscriptions'[d] > subscriptions[d]
                \/ tasks'[d][id].pc \in {"r_sleep", "gather", "flush"})
            => /\ <<"heartbeat", d>> \in out'
               /\ cfg.fake_gateway[d]
                  \/ \E i \in DOMAIN events' :
                        events'[i].ev = "update" /\ events'[i].dev = d]_vars

(* the values the restore hook of d has just written *)
RestoreWrites(d) ==
    {v \in {"v1", "v2", "s1", "a1", "dflt", "0"} : <<"restore_write", d, v>> \in out}

\* C28 as stated: the restore hook writes a value back only for an entity
\* flagged passive; for an entity that is not, it writes nothing, whatever
\* its other settings and its state.
C28_OnlyPassiveWrites ==
    \A d \in cfg.devs :
        RestoreWrites(d) # {} => cfg.entity[d].passive_entity

\* C28 as the code has it: the restore hook writes only for an entity that is
\* flagged passive or flagged restore_on_reconnect; for an entity that is not
\* passive it writes exactly when the entity is flagged restore_on_reconnect
\* and has a current or a last state.
C28_PassiveOrRestoreOnReconnect ==
    \A d \in cfg.devs :
        /\ RestoreWrites(d) # {} =>
                (cfg.entity[d].passive_entity \/ cfg.entity[d].restore_on_reconnect)
        /\ (<<"restore_hook", d>> \in out /\ ~cfg.entity[d].passive_entity) =>
                (RestoreWrites(d) # {}
                    <=> /\ cfg.entity[d].restore_on_reconnect
                        /\ ~NoCurrent(d) \/ e_last_state[d] # NoneV)

(* the hook of an entity that is not passive has written a value *)
C28_Witness ==
    \E d \in cfg.devs :
        /\ ~cfg.entity[d].passive_entity
        /\ RestoreWrites(d) # {}

\* C29: a value passed to set_dp while the device is connected is never
\* removed from PendingWrites without being handed to the Transport: unless a
\* later set_dp of the device replaced it, the value is still in PendingWrites
\* or a set_dps made after the call carried it.
C29_NoConnectedWriteLost ==
    \A i \in 1..Len(writers) :
        LET w == writers[i]
        IN  (w.tid # None /\ \A j \in (i + 1)..Len(writers) : writers[j].dev # w.dev)
                => \/ dp_value(pending_status[w.dev]) = w.val
                   \/ \E k \in (w.base + 1)..Len(sent[w.dev]) :
                          dp_value(sent[w.dev][k].p) = w.val

\* C30: whenever a subdevice holds a Transport, it is the Transport its
\* gateway holds now: no subdevice holds a Transport the gateway has given
\* up.
C30_SubdeviceHoldsGatewaysTransport ==
    \A d \in cfg.devs :
        (cfg.node_id[d] /\ ~cfg.fake_gateway[d] /\ interface[d] # None)
            => interface[d] = interface["gw"]

\* C31: a device holds at most one active subscription to its "entity added"
\* signal at any time, whatever the number of disconnects and reconnects, and
\* none once close() has finished.
C31_AtMostOneSubscription ==
    \A d \in cfg.devs :
        /\ subscriptions[d] <= 1
        /\ closed[d] => subscriptions[d] = 0

-----------------------------------------------------------------------------
(* ---- one plain device that is unreachable during some seconds, under ---- *)
(* ---- fair scheduling of its connect runs and of the timers           ---- *)

InitLive ==
    \E dn \in SUBSET {1, 2}, sl \in {0, 2} :
        InitWith([BaseCfg EXCEPT !.down["gw"] = dn, !.sleep_time["gw"] = sl,
                                 !.dialFails["gw"] = {}, !.statusFails["gw"] = {},
                                 !.maxTasks = LvTasks, !.maxOpens = LvOpens,
                                 !.maxTime = LvTime])

(* the Transport is lost only while the run of the quick reconnect can *)
(* still start, open a Transport and see its timer come due            *)
LostLive(t) ==
    /\ t \in alive
    /\ FreeTask(Cur, opener[t]) # None
    /\ NextTid(Cur) # None
    /\ now + ReconnectDelay <= cfg.maxTime
    /\ TransportLost(t)

NextLive ==
    \/ \E d \in Dev : Connect(d)
    \/ \E d \in Dev, id \in 1..LvTasks : TaskStep(d, id)
    \/ \E t \in 1..LvOpens : LostLive(t)
    \/ \E tm \in timers : TimerFire(tm)
    \/ Tick

(* the event loop runs every task that can run and every timer that is due *)
SpecLive ==
    /\ InitLive
    /\ [][NextLive]_vars
    /\ WF_vars(\E d \in Dev, id \in 1..LvTasks : TaskStep(d, id))
    /\ WF_vars(\E tm \in timers : TimerFire(tm))
    /\ WF_vars(Tick)

\* C32: after an unexpected disconnect of a device that is not a subdevice
\* and is not closing, and that is reachable from some second on for good,
\* the device becomes connected again, unless connect() was called from
\* outside in the meantime.
C32_ReconnectsByItself ==
    \A d \in Dev :
        (<<"disconnected", d>> \in out) ~> (interface[d] # None \/ extConn[d])

====
